---------------------------- MODULE Spec2Model ----------------------------
(***************************************************************************)
(* Model of src/blender_mcp_server.py: the synchronous command bridge of   *)
(* the MCP Blender add-on.                                                 *)
(*                                                                         *)
(* Two threads share one queue.  The listener thread (server_thread) runs  *)
(* socketserver.TCPServer.serve_forever: it accepts one connection at a    *)
(* time and runs BlenderCommHandler.handle on it to completion before it   *)
(* accepts the next one (BlenderTCPServer derives from TCPServer, not from *)
(* ThreadingTCPServer).  The main thread of the host runs the timer        *)
(* callback execute_commands_from_queue, start_server and stop_server.     *)
(***************************************************************************)
EXTENDS Naturals, Sequences, FiniteSets

\* Number of client connections made during one run of the model.
MaxConn == 2

ConnIds == 1..MaxConn

\* No connection: the value of cur while the listener handles nothing.
NoConn == 0

(***************************************************************************)
(* Request payloads.  Each value stands for the bytes a client sends:      *)
(*   garbage         bytes that are not JSON                               *)
(*   list            JSON that is not an object, e.g. [1]                  *)
(*   no_operator     {"params": {}}                                        *)
(*   empty_operator  {"operator": "", "params": {}}                        *)
(*   nodot           {"operator": "cube"}                                  *)
(*   unknown         {"operator": "mesh.nosuch"}                           *)
(*   finish          {"operator": "mesh.finish"}   returns {'FINISHED'}    *)
(*   cancel          {"operator": "mesh.cancel"}   returns {'CANCELLED'}   *)
(*   raise           {"operator": "mesh.raise"}    the call raises         *)
(***************************************************************************)
Bodies == {"garbage", "list", "no_operator", "empty_operator", "nodot",
           "unknown", "finish", "cancel", "raise"}

\* json.loads(data.decode('utf-8')): a parse failure, or the parsed value.
\* An operator path is the sequence of its dot-separated components.
json_loads(b) ==
  CASE b = "garbage"        -> [ok |-> FALSE, isObject |-> FALSE, hasOperator |-> FALSE, operator |-> <<>>]
    [] b = "list"           -> [ok |-> TRUE, isObject |-> FALSE, hasOperator |-> FALSE, operator |-> <<>>]
    [] b = "no_operator"    -> [ok |-> TRUE, isObject |-> TRUE, hasOperator |-> FALSE, operator |-> <<>>]
    [] b = "empty_operator" -> [ok |-> TRUE, isObject |-> TRUE, hasOperator |-> TRUE, operator |-> <<>>]
    [] b = "nodot"          -> [ok |-> TRUE, isObject |-> TRUE, hasOperator |-> TRUE, operator |-> <<"cube">>]
    [] b = "unknown"        -> [ok |-> TRUE, isObject |-> TRUE, hasOperator |-> TRUE, operator |-> <<"mesh", "nosuch">>]
    [] b = "finish"         -> [ok |-> TRUE, isObject |-> TRUE, hasOperator |-> TRUE, operator |-> <<"mesh", "finish">>]
    [] b = "cancel"         -> [ok |-> TRUE, isObject |-> TRUE, hasOperator |-> TRUE, operator |-> <<"mesh", "cancel">>]
    [] OTHER                -> [ok |-> TRUE, isObject |-> TRUE, hasOperator |-> TRUE, operator |-> <<"mesh", "raise">>]

\* bpy.ops, the host's operators: what a call of the named operator does.
bpy_ops(op_module, op_name) ==
  IF op_module = <<"mesh">> /\ op_name = "finish" THEN "FINISHED"
  ELSE IF op_module = <<"mesh">> /\ op_name = "cancel" THEN "CANCELLED"
  ELSE IF op_module = <<"mesh">> /\ op_name = "raise" THEN "RuntimeError"
  ELSE "AttributeError"

\* A response: status and message; req names the request the response was
\* made for (the identity of the dict object, not part of the JSON text).
Resp(status, message, req) == [status |-> status, message |-> message, req |-> req]

\* Fault injection: the test written as operator_path is None.
OperatorMissingOnlyWhenAbsent(command) == ~command.hasOperator

\* Line 33: not operator_path, true of None (no "operator" key) and of "".
OperatorMissing(command) == ~command.hasOperator \/ command.operator = <<>>

\* Fault injection: the two branches of the FINISHED test exchanged.
ResultResponseInverted(result, operator_path) ==
  IF result # "FINISHED"
    THEN [raised |-> FALSE, exc |-> "None", status |-> "OK",
          message |-> <<"Executed">> \o operator_path]
    ELSE [raised |-> FALSE, exc |-> "None", status |-> "ERROR",
          message |-> <<"did not finish">> \o operator_path]

\* Lines 44-47: 'FINISHED' in result.
ResultResponse(result, operator_path) ==
  IF result = "FINISHED"
    THEN [raised |-> FALSE, exc |-> "None", status |-> "OK",
          message |-> <<"Executed">> \o operator_path]
    ELSE [raised |-> FALSE, exc |-> "None", status |-> "ERROR",
          message |-> <<"did not finish">> \o operator_path]

\* Lines 30-41: the command gets as far as operator_func(...), the call of
\* the operator.
ReachesCall(command) ==
  command.isObject /\ ~OperatorMissing(command) /\ Len(command.operator) >= 2

\* The body of the try statement of execute_commands_from_queue (lines
\* 30-47): the response it assigns, or the exception that leaves it.
TryBody(command) ==
  IF ~command.isObject
    THEN [raised |-> TRUE, exc |-> "AttributeError", status |-> "ERROR",
          message |-> <<"object has no attribute 'get'">>]
  ELSE IF OperatorMissing(command)
    THEN [raised |-> TRUE, exc |-> "ValueError", status |-> "ERROR",
          message |-> <<"'operator' key is missing.">>]
  ELSE IF Len(command.operator) < 2
    THEN [raised |-> TRUE, exc |-> "ValueError", status |-> "ERROR",
          message |-> <<"not enough values to unpack">>]
  ELSE LET op_module == SubSeq(command.operator, 1, Len(command.operator) - 1)
           op_name   == command.operator[Len(command.operator)]
           result    == bpy_ops(op_module, op_name)
       IN IF result \in {"AttributeError", "RuntimeError"}
            THEN [raised |-> TRUE, exc |-> result, status |-> "ERROR",
                  message |-> <<"operator call failed">> \o command.operator]
            ELSE ResultResponse(result, command.operator)

\* The classes "except Exception" catches.
ExceptionClasses == {"AttributeError", "ValueError", "RuntimeError"}

\* Fault injection: except ValueError in place of except Exception.
CaughtOnlyValueError(exc) == exc = "ValueError"

\* except Exception as e (line 49): is the exception caught?
Caught(exc) == exc \in ExceptionClasses

\* One iteration's response (lines 28-51); escaped when the exception is not
\* caught and leaves execute_commands_from_queue.
IterationResponse(command, req) ==
  LET t == TryBody(command)
  IN IF t.raised /\ ~Caught(t.exc)
       THEN [escaped |-> TRUE, response |-> Resp("ERROR", t.message, req)]
       ELSE [escaped |-> FALSE, response |-> Resp(t.status, t.message, req)]

\* Fault injection: no except queue.Empty clause, so that the timeout is
\* reported by except Exception as str(queue.Empty()), the empty string.
TimeoutResponseEmptyMessage(req) == Resp("ERROR", <<>>, req)

\* The handler's response when response_queue.get times out (line 78).
TimeoutResponse(req) == Resp("ERROR", <<"Blender process timed out.">>, req)

\* The handler's response to any other exception (line 82): str(e).
HandlerErrorResponse(what, req) == Resp("ERROR", <<what>>, req)

VARIABLES
  timer_registered, \* bpy.app.timers holds execute_commands_from_queue
  timer_interval,   \* tenths of a second to its next call; 0: no timer
  tcp_server,       \* the global tcp_server: "None" or "bound"
  shutdown_request, \* tcp_server.shutdown() asked serve_forever to stop
  hpc,              \* the listener thread (server_thread): its position
  cur,              \* the connection the listener thread is handling
  hresponse,        \* handle's local variable response
  backlog,          \* connections waiting to be accepted, oldest first
  command_queue,    \* the global command_queue: (command, response_queue)
  response_queue,   \* response_queue[c]: the queue handle made for c
  mpc,              \* the main thread: its position
  item,             \* the pump's (command, response_queue) of this iteration
  response,         \* the pump's local variable response
  drain,            \* this drain pass: the queue when it began, what it did
  nextConn,         \* the id of the next connection
  cstate,           \* cstate[c]: "unused", "backlog", "handling", "closed", "refused"
  body,             \* body[c]: the bytes recv returned on c
  path,             \* path[c]: how handle left its try statement
  sendCalls,        \* sendCalls[c]: calls of sendall on c
  wire,             \* wire[c]: the responses sendall wrote to c
  enqueued,         \* enqueued[c]: puts of c's command on command_queue
  executed,         \* executed[c]: iterations of the pump on c's command
  invoked           \* invoked[c]: the thread that called c's operator, or "none"

listenerVars == <<hpc, cur, hresponse>>
mainVars     == <<mpc, item, response, drain>>
serverVars   == <<timer_registered, timer_interval, tcp_server, shutdown_request>>
connVars     == <<nextConn, cstate, body, path, sendCalls, wire, enqueued, executed,
                 invoked>>
vars == <<listenerVars, mainVars, serverVars, connVars, backlog, command_queue,
          response_queue>>

NoItem == [command |-> json_loads("garbage"), rq |-> NoConn]
NoResponse == Resp("NONE", <<>>, NoConn)
NoDrain == [start |-> <<>>, log |-> <<>>]

\* The module's globals after import (lines 21, 90, 91).
Init ==
  /\ timer_registered = FALSE
  /\ timer_interval = 0
  /\ tcp_server = "None"
  /\ shutdown_request = FALSE
  /\ hpc = "none"
  /\ cur = NoConn
  /\ hresponse = NoResponse
  /\ backlog = <<>>
  /\ command_queue = <<>>
  /\ response_queue = [c \in ConnIds |-> <<>>]
  /\ mpc = "host"
  /\ item = NoItem
  /\ response = NoResponse
  /\ drain = NoDrain
  /\ nextConn = 1
  /\ cstate = [c \in ConnIds |-> "unused"]
  /\ body = [c \in ConnIds |-> "garbage"]
  /\ path = [c \in ConnIds |-> "none"]
  /\ sendCalls = [c \in ConnIds |-> 0]
  /\ wire = [c \in ConnIds |-> <<>>]
  /\ enqueued = [c \in ConnIds |-> 0]
  /\ executed = [c \in ConnIds |-> 0]
  /\ invoked = [c \in ConnIds |-> "none"]

\* register, line 168: first_interval=1.0, in tenths of a second.
first_interval == 10

\* execute_commands_from_queue, line 56: return 0.1, in tenths of a second.
return_interval == 1

\* bpy.app.timers: a timer function that returns a number is called again
\* after that many seconds; one that returns None (written 0 here) is
\* unregistered.
Reschedule(ret) ==
  /\ timer_registered' = (ret # 0)
  /\ timer_interval' = ret

(***************************************************************************)
(* Clients.                                                                *)
(***************************************************************************)

\* A client connects to localhost:65432.  The connection waits in the
\* listening socket's backlog until it is accepted.
Connect ==
  /\ tcp_server = "bound"
  /\ nextConn <= MaxConn
  /\ cstate' = [cstate EXCEPT ![nextConn] = "backlog"]
  /\ backlog' = Append(backlog, nextConn)
  /\ nextConn' = nextConn + 1
  /\ UNCHANGED <<listenerVars, mainVars, serverVars, body, path, sendCalls,
                 wire, enqueued, executed, invoked, command_queue, response_queue>>

(***************************************************************************)
(* The listener thread: serve_forever and BlenderCommHandler.handle.       *)
(***************************************************************************)

\* serve_forever accepts the oldest waiting connection and constructs the
\* handler, which runs handle.
ServeAccept ==
  /\ hpc = "idle"
  /\ ~shutdown_request
  /\ backlog # <<>>
  /\ cur' = Head(backlog)
  /\ backlog' = Tail(backlog)
  /\ cstate' = [cstate EXCEPT ![Head(backlog)] = "handling"]
  /\ hpc' = "recv"
  /\ UNCHANGED <<hresponse, mainVars, serverVars, nextConn, body, path,
                 sendCalls, wire, enqueued, executed, invoked, command_queue,
                 response_queue>>

\* Fault injection: the handler calls the operator itself, on the listener
\* thread, instead of handing the command over to the main thread.
HandleRecvCallsOperator ==
  /\ hpc = "recv"
  /\ \E data \in Bodies :
       /\ body' = [body EXCEPT ![cur] = data]
       /\ IF ~json_loads(data).ok
            THEN /\ hresponse' = HandlerErrorResponse("json.loads failed", cur)
                 /\ path' = [path EXCEPT ![cur] = "parse_error"]
                 /\ hpc' = "send_error"
                 /\ UNCHANGED invoked
            ELSE /\ hresponse' = IterationResponse(json_loads(data), cur).response
                 /\ invoked' = IF ReachesCall(json_loads(data))
                                 THEN [invoked EXCEPT ![cur] = "listener"]
                                 ELSE invoked
                 /\ path' = [path EXCEPT ![cur] = "delivered"]
                 /\ hpc' = "send"
  /\ UNCHANGED <<cur, mainVars, serverVars, nextConn, cstate, sendCalls,
                 wire, enqueued, executed, backlog, command_queue,
                 response_queue>>

\* Fault injection: command_queue.put made before the parse result is known.
HandleRecvPutFirst ==
  /\ hpc = "recv"
  /\ \E data \in Bodies :
       /\ body' = [body EXCEPT ![cur] = data]
       /\ response_queue' = [response_queue EXCEPT ![cur] = <<>>]
       /\ command_queue' = Append(command_queue,
                                  [command |-> json_loads(data), rq |-> cur])
       /\ enqueued' = [enqueued EXCEPT ![cur] = @ + 1]
       /\ IF ~json_loads(data).ok
            THEN /\ hresponse' = HandlerErrorResponse("json.loads failed", cur)
                 /\ path' = [path EXCEPT ![cur] = "parse_error"]
                 /\ hpc' = "send_error"
            ELSE /\ path' = [path EXCEPT ![cur] = "waiting"]
                 /\ hpc' = "wait"
                 /\ UNCHANGED hresponse
  /\ UNCHANGED <<cur, mainVars, serverVars, nextConn, cstate, sendCalls,
                 wire, executed, invoked, backlog>>

\* Lines 62-68: recv returns the bytes the client sent; json.loads, a fresh
\* response_queue, command_queue.put.  A parse failure goes to the except
\* Exception clause (lines 80-82).
HandleRecv ==
  /\ hpc = "recv"
  /\ \E data \in Bodies :
       /\ body' = [body EXCEPT ![cur] = data]
       /\ IF ~json_loads(data).ok
            THEN /\ hresponse' = HandlerErrorResponse("json.loads failed", cur)
                 /\ path' = [path EXCEPT ![cur] = "parse_error"]
                 /\ hpc' = "send_error"
                 /\ UNCHANGED <<command_queue, response_queue, enqueued>>
            ELSE /\ response_queue' = [response_queue EXCEPT ![cur] = <<>>]
                 /\ command_queue' = Append(command_queue,
                                            [command |-> json_loads(data), rq |-> cur])
                 /\ enqueued' = [enqueued EXCEPT ![cur] = @ + 1]
                 /\ path' = [path EXCEPT ![cur] = "waiting"]
                 /\ hpc' = "wait"
                 /\ UNCHANGED hresponse
  /\ UNCHANGED <<cur, mainVars, serverVars, nextConn, cstate, sendCalls,
                 wire, executed, invoked, backlog>>

\* Line 71: response_queue.get(timeout=10.0) returns the response.
HandleGet ==
  /\ hpc = "wait"
  /\ response_queue[cur] # <<>>
  /\ hresponse' = Head(response_queue[cur])
  /\ response_queue' = [response_queue EXCEPT ![cur] = Tail(@)]
  /\ path' = [path EXCEPT ![cur] = "delivered"]
  /\ hpc' = "send"
  /\ UNCHANGED <<cur, mainVars, serverVars, nextConn, cstate, body, sendCalls,
                 wire, enqueued, executed, invoked, backlog, command_queue>>

\* Fault injection: response_queue.get() without a timeout; with nothing in
\* the queue the handler stays blocked.
HandleGetBlocksForever ==
  /\ hpc = "wait"
  /\ response_queue[cur] = <<>>
  /\ UNCHANGED vars

\* Fault injection: the handler withdraws its command when it times out.
HandleTimeoutCancels ==
  /\ hpc = "wait"
  /\ response_queue[cur] = <<>>
  /\ hresponse' = TimeoutResponse(cur)
  /\ path' = [path EXCEPT ![cur] = "timeout"]
  /\ hpc' = "send_timeout"
  /\ command_queue' = LET keep(e) == e.rq # cur IN SelectSeq(command_queue, keep)
  /\ UNCHANGED <<cur, mainVars, serverVars, nextConn, cstate, body, sendCalls,
                 wire, enqueued, executed, invoked, backlog, response_queue>>

\* Lines 71, 76-78: the 10 s pass with nothing in response_queue; get raises
\* queue.Empty.
HandleTimeout ==
  /\ hpc = "wait"
  /\ response_queue[cur] = <<>>
  /\ hresponse' = TimeoutResponse(cur)
  /\ path' = [path EXCEPT ![cur] = "timeout"]
  /\ hpc' = "send_timeout"
  /\ UNCHANGED <<cur, mainVars, serverVars, nextConn, cstate, body, sendCalls,
                 wire, enqueued, executed, invoked, backlog, command_queue,
                 response_queue>>

\* handle has returned or raised: socketserver closes the connection
\* (shutdown_request) and serve_forever goes on with its loop.
FinishRequest ==
  /\ cstate' = [cstate EXCEPT ![cur] = "closed"]
  /\ cur' = NoConn
  /\ hresponse' = NoResponse
  /\ hpc' = "idle"

\* self.request.sendall(json.dumps(response).encode('utf-8')): written, or
\* an OSError.
sendall(ok) ==
  /\ sendCalls' = [sendCalls EXCEPT ![cur] = @ + 1]
  /\ wire' = IF ok THEN [wire EXCEPT ![cur] = Append(@, hresponse)] ELSE wire

\* Line 74.  An OSError of this sendall is caught by except Exception
\* (lines 80-82), which goes on to its own sendall.
HandleSendResponse ==
  /\ hpc = "send"
  /\ \E ok \in BOOLEAN :
       /\ sendall(ok)
       /\ IF ok
            THEN FinishRequest
            ELSE /\ hresponse' = HandlerErrorResponse("sendall failed", cur)
                 /\ hpc' = "send_error"
                 /\ UNCHANGED <<cur, cstate>>
  /\ UNCHANGED <<mainVars, serverVars, nextConn, body, path, enqueued,
                 executed, invoked, backlog, command_queue, response_queue>>

\* Fault injection: the except queue.Empty clause without its sendall.
HandleSendTimeoutNoSend ==
  /\ hpc = "send_timeout"
  /\ FinishRequest
  /\ UNCHANGED <<mainVars, serverVars, nextConn, body, path, sendCalls, wire,
                 enqueued, executed, invoked, backlog, command_queue, response_queue>>

\* Line 79, in the except queue.Empty clause: an OSError leaves handle.
HandleSendTimeout ==
  /\ hpc = "send_timeout"
  /\ \E ok \in BOOLEAN : sendall(ok)
  /\ FinishRequest
  /\ UNCHANGED <<mainVars, serverVars, nextConn, body, path, enqueued,
                 executed, invoked, backlog, command_queue, response_queue>>

\* Fault injection: an exception that leaves handle ends serve_forever.
HandleSendErrorStopsListener ==
  /\ hpc = "send_error"
  /\ \E ok \in BOOLEAN :
       /\ sendall(ok)
       /\ IF ok
            THEN FinishRequest
            ELSE /\ cstate' = [cstate EXCEPT ![cur] = "closed"]
                 /\ cur' = NoConn
                 /\ hresponse' = NoResponse
                 /\ hpc' = "dead"
  /\ UNCHANGED <<mainVars, serverVars, nextConn, body, path, enqueued,
                 executed, invoked, backlog, command_queue, response_queue>>

\* Line 83, in the except Exception clause: an OSError leaves handle.
HandleSendError ==
  /\ hpc = "send_error"
  /\ \E ok \in BOOLEAN : sendall(ok)
  /\ FinishRequest
  /\ UNCHANGED <<mainVars, serverVars, nextConn, body, path, enqueued,
                 executed, invoked, backlog, command_queue, response_queue>>

\* serve_forever sees the shutdown request between two connections, leaves
\* its loop and sets the event shutdown() waits for.
ServeShutdown ==
  /\ hpc = "idle"
  /\ shutdown_request
  /\ shutdown_request' = FALSE
  /\ hpc' = "shut"
  /\ UNCHANGED <<cur, hresponse, mainVars, timer_registered, timer_interval,
                 tcp_server,
                 connVars, backlog, command_queue, response_queue>>

\* The thread's target has returned: is_alive() becomes False.
ThreadExit ==
  /\ hpc = "shut"
  /\ hpc' = "dead"
  /\ UNCHANGED <<cur, hresponse, mainVars, serverVars, connVars, backlog,
                 command_queue, response_queue>>

(***************************************************************************)
(* The main thread: register, start_server, stop_server and the pump.      *)
(***************************************************************************)

\* server_thread and server_thread.is_alive() (line 97).
server_thread_alive == hpc \notin {"none", "dead"}

\* start_server (lines 93-108): nothing while the thread is alive, else a new
\* BlenderTCPServer, bound and listening, and a new thread in serve_forever.
start_server_body ==
  IF server_thread_alive
    THEN UNCHANGED <<tcp_server, shutdown_request, hpc>>
    ELSE /\ tcp_server' = "bound"
         /\ shutdown_request' = FALSE
         /\ hpc' = "idle"

\* register (lines 163-172): the timer, then start_server.
register ==
  /\ mpc = "host"
  /\ ~timer_registered
  /\ timer_registered' = TRUE
  /\ timer_interval' = first_interval
  /\ start_server_body
  /\ UNCHANGED <<cur, hresponse, mainVars, connVars, backlog, command_queue,
                 response_queue>>

\* start_server called by load_handler (line 158) or by the Start Server
\* button (line 142).
start_server ==
  /\ mpc = "host"
  /\ timer_registered
  /\ start_server_body
  /\ UNCHANGED <<cur, hresponse, mainVars, timer_registered, timer_interval,
                 connVars,
                 backlog, command_queue, response_queue>>

\* stop_server (lines 110-115), called by the Stop Server button: nothing
\* when tcp_server is None, else tcp_server.shutdown(), which blocks the main
\* thread until serve_forever has left its loop.
stop_server ==
  /\ mpc = "host"
  /\ timer_registered
  /\ IF tcp_server = "bound"
       THEN /\ shutdown_request' = TRUE
            /\ mpc' = "shutdown"
       ELSE UNCHANGED <<shutdown_request, mpc>>
  /\ UNCHANGED <<listenerVars, item, response, drain, timer_registered,
                 timer_interval,
                 tcp_server, connVars, backlog, command_queue, response_queue>>

\* stop_server (lines 115-117): shutdown() returns, server_close() closes the
\* listening socket (the connections still waiting in its backlog are
\* reset), tcp_server = None.
stop_server_return ==
  /\ mpc = "shutdown"
  /\ hpc \in {"shut", "dead"}
  /\ cstate' = [c \in ConnIds |-> IF cstate[c] = "backlog" THEN "refused" ELSE cstate[c]]
  /\ backlog' = <<>>
  /\ tcp_server' = "None"
  /\ mpc' = "host"
  /\ UNCHANGED <<listenerVars, item, response, drain, timer_registered,
                 timer_interval,
                 shutdown_request, nextConn, body, path, sendCalls, wire,
                 enqueued, executed, invoked, command_queue, response_queue>>

\* The requests of the commands in a queue, in order.
Requests(q) == [i \in 1..Len(q) |-> q[i].rq]

\* Fault injection: the oldest item read but left in the queue.
get_nowait_peek(q) == [item |-> Head(q), rest |-> q]

\* Fault injection: a LIFO queue.
get_nowait_newest(q) == [item |-> q[Len(q)], rest |-> SubSeq(q, 1, Len(q) - 1)]

\* command_queue.get_nowait() (line 27) on a queue that is not empty: the
\* oldest item, and what stays in the queue.
get_nowait(q) == [item |-> Head(q), rest |-> Tail(q)]

\* The host's timer calls execute_commands_from_queue, which makes its first
\* test of the while loop (lines 23-27): with nothing queued it returns 0.1
\* at once (line 56) and the timer stays registered; else it takes the first
\* command of this drain pass.
PumpTick ==
  /\ mpc = "host"
  /\ timer_registered
  /\ IF command_queue = <<>>
       THEN /\ Reschedule(return_interval)
            /\ UNCHANGED <<mpc, item, drain, command_queue>>
       ELSE /\ item' = get_nowait(command_queue).item
            /\ command_queue' = get_nowait(command_queue).rest
            /\ drain' = [start |-> Requests(command_queue), log |-> <<>>]
            /\ mpc' = "exec"
            /\ UNCHANGED <<timer_registered, timer_interval>>
  /\ UNCHANGED <<listenerVars, response, tcp_server, shutdown_request, connVars,
                 backlog, response_queue>>

\* Fault injection: the function ends without "return 0.1".
PumpLoopReturnsNone ==
  /\ mpc = "loop"
  /\ IF command_queue = <<>>
       THEN /\ mpc' = "host"
            /\ drain' = NoDrain
            /\ Reschedule(0)
            /\ UNCHANGED <<item, command_queue>>
       ELSE /\ item' = get_nowait(command_queue).item
            /\ command_queue' = get_nowait(command_queue).rest
            /\ mpc' = "exec"
            /\ UNCHANGED <<drain, timer_registered, timer_interval>>
  /\ UNCHANGED <<listenerVars, response, tcp_server, shutdown_request, connVars,
                 backlog, response_queue>>

\* Fault injection: the loop counts down from the queue's size at the start
\* of the pass and returns when the count is used up.
PumpLoopBounded ==
  /\ mpc = "loop"
  /\ LET isExec(e) == e[1] = "exec"
         done == Len(SelectSeq(drain.log, isExec))
     IN IF command_queue = <<>> \/ done >= Len(drain.start)
          THEN /\ mpc' = "host"
               /\ drain' = NoDrain
               /\ Reschedule(return_interval)
               /\ UNCHANGED <<item, command_queue>>
          ELSE /\ item' = get_nowait(command_queue).item
               /\ command_queue' = get_nowait(command_queue).rest
               /\ mpc' = "exec"
               /\ UNCHANGED <<drain, timer_registered, timer_interval>>
  /\ UNCHANGED <<listenerVars, response, tcp_server, shutdown_request, connVars,
                 backlog, response_queue>>

\* Lines 25-27 and 56, after an iteration: while not command_queue.empty():
\* get_nowait(); when the queue is empty, return 0.1 and the timer stays
\* registered.
PumpLoop ==
  /\ mpc = "loop"
  /\ IF command_queue = <<>>
       THEN /\ mpc' = "host"
            /\ drain' = NoDrain
            /\ Reschedule(return_interval)
            /\ UNCHANGED <<item, command_queue>>
       ELSE /\ item' = get_nowait(command_queue).item
            /\ command_queue' = get_nowait(command_queue).rest
            /\ mpc' = "exec"
            /\ UNCHANGED <<drain, timer_registered, timer_interval>>
  /\ UNCHANGED <<listenerVars, response, tcp_server, shutdown_request, connVars,
                 backlog, response_queue>>

\* Lines 28-51: the try statement.  An exception that except Exception does
\* not catch leaves the callback, and the host drops a timer that raised.
PumpExec ==
  /\ mpc = "exec"
  /\ LET r == IterationResponse(item.command, item.rq)
     IN IF r.escaped
          THEN /\ mpc' = "host"
               /\ timer_registered' = FALSE
               /\ timer_interval' = 0
               /\ item' = NoItem
               /\ drain' = NoDrain
               /\ UNCHANGED response
          ELSE /\ mpc' = "put"
               /\ response' = r.response
               /\ drain' = [drain EXCEPT !.log = Append(@, <<"exec", item.rq>>)]
               /\ UNCHANGED <<item, timer_registered, timer_interval>>
  /\ executed' = [executed EXCEPT ![item.rq] = @ + 1]
  /\ invoked' = IF ReachesCall(item.command)
                THEN [invoked EXCEPT ![item.rq] = "main"]
                ELSE invoked
  /\ UNCHANGED <<listenerVars, tcp_server, shutdown_request, nextConn, cstate,
                 body, path, sendCalls, wire, enqueued, backlog, command_queue,
                 response_queue>>

\* queue.Queue() (line 66): maxsize 0, a queue that is never full.
response_queue_maxsize == 0

\* Queue.put blocks while the queue is full.
Full(q) == response_queue_maxsize > 0 /\ Len(q) >= response_queue_maxsize

\* Fault injection: a put that needs a handler waiting in get.
PumpPutToWaiter ==
  /\ mpc = "put"
  /\ hpc = "wait" /\ cur = item.rq
  /\ response_queue' = [response_queue EXCEPT ![item.rq] = Append(@, response)]
  /\ drain' = [drain EXCEPT !.log = Append(@, <<"put", item.rq>>)]
  /\ item' = NoItem
  /\ response' = NoResponse
  /\ mpc' = "loop"
  /\ UNCHANGED <<listenerVars, serverVars, connVars, backlog, command_queue>>

\* Fault injection: one response queue shared by the handlers instead of
\* the queue that came with the command.
PumpPutShared ==
  /\ mpc = "put"
  /\ LET q == IF cur # NoConn THEN cur ELSE item.rq
     IN response_queue' = [response_queue EXCEPT ![q] = Append(@, response)]
  /\ drain' = [drain EXCEPT !.log = Append(@, <<"put", item.rq>>)]
  /\ item' = NoItem
  /\ response' = NoResponse
  /\ mpc' = "loop"
  /\ UNCHANGED <<listenerVars, serverVars, connVars, backlog, command_queue>>

\* Fault injection: the pass ends after the put of an ERROR response.
PumpPutAbortsOnError ==
  /\ mpc = "put"
  /\ ~Full(response_queue[item.rq])
  /\ response_queue' = [response_queue EXCEPT ![item.rq] = Append(@, response)]
  /\ drain' = IF response.status = "ERROR"
                THEN NoDrain
                ELSE [drain EXCEPT !.log = Append(@, <<"put", item.rq>>)]
  /\ item' = NoItem
  /\ response' = NoResponse
  /\ mpc' = IF response.status = "ERROR" THEN "host" ELSE "loop"
  /\ UNCHANGED <<listenerVars, serverVars, connVars, backlog, command_queue>>

\* Line 54: response_queue.put(response), on the queue that came with the
\* command.
PumpPut ==
  /\ mpc = "put"
  /\ ~Full(response_queue[item.rq])
  /\ response_queue' = [response_queue EXCEPT ![item.rq] = Append(@, response)]
  /\ drain' = [drain EXCEPT !.log = Append(@, <<"put", item.rq>>)]
  /\ item' = NoItem
  /\ response' = NoResponse
  /\ mpc' = "loop"
  /\ UNCHANGED <<listenerVars, serverVars, connVars, backlog, command_queue>>

Next ==
  \/ Connect
  \/ ServeAccept
  \/ HandleRecv
  \/ HandleGet
  \/ HandleTimeout
  \/ HandleSendResponse
  \/ HandleSendTimeout
  \/ HandleSendError
  \/ ServeShutdown
  \/ ThreadExit
  \/ register
  \/ start_server
  \/ stop_server
  \/ stop_server_return
  \/ PumpTick
  \/ PumpLoop
  \/ PumpExec
  \/ PumpPut

Spec == Init /\ [][Next]_vars

\* A step of the listener thread.
ListenerStep ==
  \/ ServeAccept
  \/ HandleRecv
  \/ HandleGet
  \/ HandleTimeout
  \/ HandleSendResponse
  \/ HandleSendTimeout
  \/ HandleSendError
  \/ ServeShutdown
  \/ ThreadExit

\* The scheduling the program runs under: the listener thread keeps running
\* (and a wait with a timeout ends); the host calls the registered timer
\* again and again whenever the main thread is free (it re-arms it with the
\* returned interval), a call of the callback runs on to its return, and
\* tcp_server.shutdown() returns once serve_forever has left its loop.
FairSpec ==
  /\ Spec
  /\ WF_vars(ListenerStep)
  /\ SF_vars(PumpTick)
  /\ WF_vars(PumpLoop)
  /\ WF_vars(PumpExec)
  /\ WF_vars(PumpPut)
  /\ WF_vars(stop_server_return)

(***************************************************************************)
(* Properties.                                                             *)
(***************************************************************************)

Closed(c) == cstate[c] = "closed"

\* recv has returned on c: body[c] is what the client sent.
Read(c) == path[c] # "none"

\* No sendall on c has raised.
NoSendFault(c) == sendCalls[c] = Len(wire[c])

MissingOperatorError(c) == Resp("ERROR", <<"'operator' key is missing.">>, c)
TimedOutError(c) == Resp("ERROR", <<"Blender process timed out.">>, c)
FinishedOK(c) == Resp("OK", <<"Executed", "mesh", "finish">>, c)

\* C1 as claimed: every connection whose request was read is closed with
\* exactly one response written, on every path, a fault while sending
\* included.
C1_ExactlyOneWriteOnEveryPath ==
  \A c \in ConnIds : Closed(c) => sendCalls[c] = 1 /\ Len(wire[c]) = 1

\* C1 amended: nothing is written on a connection before the step that closes
\* it; a closed connection saw one or two sendall calls and at most one
\* response; exactly one call and one response when no sendall raised; and a
\* second call only after the sendall of the pump's response (line 74)
\* raised.
C1_OneWriteUnlessSendFaults ==
  \A c \in ConnIds :
    /\ ~Closed(c) => wire[c] = <<>>
    /\ Closed(c) =>
         /\ sendCalls[c] \in {1, 2}
         /\ Len(wire[c]) <= 1
         /\ NoSendFault(c) => sendCalls[c] = 1 /\ Len(wire[c]) = 1
         /\ sendCalls[c] = 2 => path[c] = "delivered"

C1_Witness ==
  \E c, d \in ConnIds :
    /\ Closed(c) /\ path[c] = "timeout" /\ sendCalls[c] = 1 /\ Len(wire[c]) = 1
    /\ Closed(d) /\ sendCalls[d] = 2 /\ Len(wire[d]) = 1

\* C2 as claimed: a caller whose well-formed command was executed with a
\* FINISHED result never receives anything but OK.
C2_FinishedAlwaysOK ==
  \A c \in ConnIds :
    (body[c] = "finish" /\ executed[c] > 0 /\ wire[c] # <<>>)
      => wire[c][1].status = "OK"

\* C2 amended: the response the handler takes from its queue for a command
\* whose operator finishes is OK, and the caller receives exactly it when
\* the sendall does not raise; a caller whose handler timed out receives the
\* timeout ERROR whatever the operator returns later.
C2_FinishedOKUnlessTimeout ==
  \A c \in ConnIds :
    body[c] = "finish" /\ Read(c) =>
      /\ (hpc = "send" /\ cur = c) => hresponse = FinishedOK(c)
      /\ \A i \in DOMAIN response_queue[c] : response_queue[c][i] = FinishedOK(c)
      /\ (path[c] = "delivered" /\ Closed(c) /\ NoSendFault(c))
           => wire[c] = <<FinishedOK(c)>>
      /\ (path[c] = "timeout" /\ wire[c] # <<>>) => wire[c] = <<TimedOutError(c)>>

C2_Witness ==
  \E c \in ConnIds :
    body[c] = "finish" /\ Closed(c) /\ executed[c] = 1 /\ wire[c] = <<FinishedOK(c)>>

C4_UnparsableNeverEnqueued ==
  \A c \in ConnIds :
    body[c] = "garbage" /\ Read(c) =>
      /\ path[c] = "parse_error"
      /\ enqueued[c] = 0
      /\ executed[c] = 0
      /\ \A i \in DOMAIN command_queue : command_queue[i].rq # c
      /\ item.rq # c
      /\ response_queue[c] = <<>>
      /\ \A i \in DOMAIN wire[c] : wire[c][i].status = "ERROR"
      /\ (Closed(c) /\ NoSendFault(c)) => Len(wire[c]) = 1

C4_Witness ==
  \E c \in ConnIds :
    /\ body[c] = "garbage" /\ Closed(c)
    /\ wire[c] = <<HandlerErrorResponse("json.loads failed", c)>>
    /\ \E d \in ConnIds : d < c /\ enqueued[d] = 1

HandlerPositions == {"recv", "wait", "send", "send_timeout", "send_error"}

\* A connection whose handling met a fault: unparsable bytes, a timeout, or
\* a sendall that raised.
Faulty(c) ==
  Closed(c) /\ (path[c] \in {"parse_error", "timeout"} \/ ~NoSendFault(c))

\* C5: whatever happened on earlier connections, while a server is bound and
\* stop_server is not running the listener thread is in serve_forever, either
\* waiting for a connection or handling the one connection cur; a faulty
\* connection is closed and leaves no handler behind.
C5_ListenerSurvivesFaults ==
  /\ (tcp_server = "bound" /\ mpc # "shutdown")
       => hpc \in {"idle"} \cup HandlerPositions
  /\ hpc \in HandlerPositions <=> cur # NoConn
  /\ \A c \in ConnIds : cstate[c] = "handling" <=> cur = c

C5_Witness ==
  \E c, d \in ConnIds :
    /\ d < c
    /\ Faulty(d)
    /\ body[c] = "finish" /\ Closed(c) /\ wire[c] = <<FinishedOK(c)>>

\* What the pump answers to the command parsed from the bytes b, as the
\* source words it: the status and the first word of the message.
Answer(b) ==
  CASE b = "finish"  -> <<"OK", "Executed">>
    [] b = "cancel"  -> <<"ERROR", "did not finish">>
    [] b \in {"no_operator", "empty_operator"} -> <<"ERROR", "'operator' key is missing.">>
    [] b = "nodot"   -> <<"ERROR", "not enough values to unpack">>
    [] b = "list"    -> <<"ERROR", "object has no attribute 'get'">>
    [] OTHER         -> <<"ERROR", "operator call failed">>

\* r is the pump's answer to the command of request c.
OwnResult(r, c) ==
  /\ r.req = c
  /\ r.status = Answer(body[c])[1]
  /\ r.message[1] = Answer(body[c])[2]
  /\ Len(r.message) > 1 => SubSeq(r.message, 2, Len(r.message)) = json_loads(body[c]).operator

\* C6: a handler whose wait ends with nothing in its response queue answers
\* its caller with the timeout ERROR and nothing else, and the connection is
\* closed by the next step of the handler; a request handled on a later
\* connection, once the pump runs again, is answered with the result of its
\* own command (OK when its operator finishes).
C6_TimeoutThenBridgeStillUsable ==
  /\ \A c \in ConnIds :
       path[c] = "timeout" =>
         /\ cstate[c] = "handling" => (cur = c /\ hpc = "send_timeout"
                                        /\ hresponse = TimedOutError(c))
         /\ \A i \in DOMAIN wire[c] : wire[c][i] = TimedOutError(c)
         /\ (Closed(c) /\ NoSendFault(c)) => wire[c] = <<TimedOutError(c)>>
  /\ \A c, d \in ConnIds :
       (d < c /\ path[d] = "timeout" /\ path[c] = "delivered"
          /\ Closed(c) /\ NoSendFault(c))
         => /\ Len(wire[c]) = 1
            /\ OwnResult(wire[c][1], c)
            /\ body[c] = "finish" => wire[c][1].status = "OK"

C6_Witness ==
  \E c, d \in ConnIds :
    /\ d < c
    /\ path[d] = "timeout" /\ Closed(d) /\ wire[d] = <<TimedOutError(d)>>
    /\ executed[d] = 1
    /\ body[c] = "finish" /\ Closed(c) /\ wire[c] = <<FinishedOK(c)>>

\* The position of event e in this pass's log, 0 when it has not happened.
LogPos(e) ==
  IF \E i \in DOMAIN drain.log : drain.log[i] = e
    THEN CHOOSE i \in DOMAIN drain.log : drain.log[i] = e
    ELSE 0

\* C7: within one drain pass, for commands A before B in command_queue when
\* the pass began: if the pass has executed B or put B's response, it has
\* executed A and put A's response before.
C7_FifoWithinPass ==
  \A i, j \in DOMAIN drain.start :
    i < j =>
      LET A == drain.start[i]
          B == drain.start[j]
      IN (LogPos(<<"exec", B>>) > 0 \/ LogPos(<<"put", B>>) > 0) =>
           /\ 0 < LogPos(<<"exec", A>>)
           /\ LogPos(<<"exec", A>>) < LogPos(<<"put", A>>)
           /\ LogPos(<<"put", A>>) < LogPos(<<"exec", B>>)

C7_Witness ==
  /\ Len(drain.start) >= 2
  /\ LogPos(<<"put", drain.start[1]>>) > 0
  /\ LogPos(<<"put", drain.start[2]>>) > LogPos(<<"put", drain.start[1]>>)

\* C8: every response in the response queue of request c, every response a
\* handler takes from its queue and every response written to c's caller was
\* made for c: the pump's responses are the result of c's own command.
C8_ResponseIsolation ==
  /\ \A c \in ConnIds :
       /\ Len(response_queue[c]) <= 1
       /\ \A i \in DOMAIN response_queue[c] : OwnResult(response_queue[c][i], c)
       /\ \A i \in DOMAIN wire[c] : wire[c][i].req = c
       /\ (path[c] = "delivered" /\ Closed(c) /\ NoSendFault(c))
            => OwnResult(wire[c][1], c)
  /\ hpc = "send" => OwnResult(hresponse, cur)
  /\ mpc = "put" => OwnResult(response, item.rq)

C8_Witness ==
  \E c, d \in ConnIds :
    /\ d < c
    /\ path[d] = "timeout" /\ response_queue[d] # <<>>
    /\ body[c] # body[d]
    /\ path[c] = "delivered" /\ Closed(c) /\ Len(wire[c]) = 1
    /\ \E i, j \in DOMAIN drain.start : i < j /\ drain.start[i] = d /\ drain.start[j] = c

UnknownOperator(command) == command.ok /\ command.operator = <<"mesh", "nosuch">>

\* C9: the iteration of the pump on a command whose operator does not exist
\* ends with an ERROR response for that command, the timer still registered
\* and the pump on its way to put the response; after the put the pump is
\* back at its loop test, and from there it takes the next command while
\* there is one; the iteration on a command whose operator finishes gives
\* OK whatever was executed before it in the pass.
C9_UnknownOperatorDoesNotStopPump ==
  [][ /\ (mpc = "exec" /\ mpc' # mpc /\ UnknownOperator(item.command))
           => /\ mpc' = "put"
              /\ response'.status = "ERROR"
              /\ response'.req = item.rq
              /\ item' = item
              /\ timer_registered'
      /\ (mpc = "exec" /\ mpc' # mpc /\ item.command.operator = <<"mesh", "finish">>)
           => (mpc' = "put" /\ response'.status = "OK")
      /\ (mpc = "put" /\ mpc' # mpc)
           => (mpc' = "loop" /\ response_queue'[item.rq] = <<response>>)
      /\ (mpc \in {"host", "loop"} /\ mpc' # mpc /\ command_queue # <<>>
            /\ mpc' # "shutdown")
           => (mpc' = "exec" /\ item' = Head(command_queue))
    ]_vars

C9_Witness ==
  /\ mpc = "put"
  /\ response.status = "OK"
  /\ \E d \in ConnIds :
       /\ body[d] = "unknown" /\ Read(d)
       /\ LogPos(<<"put", d>>) > 0
       /\ LogPos(<<"exec", item.rq>>) > LogPos(<<"put", d>>)
       /\ response_queue[d] # <<>> /\ response_queue[d][1].status = "ERROR"

\* The handler of request c gave up waiting.
Abandoned(c) == c \in ConnIds /\ path[c] = "timeout"

\* C10: whenever the pump is about to put the response of a command whose
\* handler already timed out, the put can be taken at once, whatever the
\* handler thread is doing.
C10_PutOnAbandonedSlotNeverBlocks ==
  (mpc = "put" /\ Abandoned(item.rq)) => ENABLED PumpPut

C10_Witness ==
  \E d \in ConnIds :
    /\ Abandoned(d) /\ Closed(d)
    /\ response_queue[d] # <<>>
    /\ LogPos(<<"put", d>>) > 0
    /\ mpc = "exec"

\* C11 as claimed: handlers of distinct connections run independently, so
\* that while one handler waits for its response queue, a connection that
\* is waiting to be served can be taken up (and its request read and put on
\* command_queue) without a step of the waiting handler.
C11_HandlersRunIndependently ==
  (hpc = "wait" /\ backlog # <<>>) => ENABLED ServeAccept

\* An operator call is in progress on the main thread for request c.
CallInProgress(c) == mpc = "exec" /\ item.rq = c /\ ReachesCall(item.command)

\* C12: an operator is called for a request only by the pump on the main
\* thread, in the iteration that executes the request's command, never by
\* the listener thread; and at most one call is in progress at any time.
C12_OperatorsOnlyOnMainThread ==
  /\ \A c \in ConnIds :
       /\ invoked[c] \in {"none", "main"}
       /\ invoked[c] = "main" =>
            (executed[c] = 1 /\ enqueued[c] = 1 /\ ReachesCall(json_loads(body[c])))
       /\ (executed[c] = 1 /\ ReachesCall(json_loads(body[c]))) => invoked[c] = "main"
       /\ (hpc = "send" /\ cur = c /\ ReachesCall(json_loads(body[c])))
            => invoked[c] = "main"
  /\ Cardinality({c \in ConnIds : CallInProgress(c)}) <= 1

C12_Witness ==
  \E c \in ConnIds :
    /\ invoked[c] = "main"
    /\ hpc = "send" /\ cur = c /\ hresponse = FinishedOK(c)

\* The responses put so far into the response queue handle made for c: those
\* still in it and the one the handler took out.
Delivered(c) == Len(response_queue[c]) + (IF path[c] = "delivered" THEN 1 ELSE 0)

\* C13: a command is put on command_queue, executed and answered at most
\* once, a response is put only for an executed command, and, the pump
\* ticking on, every command put on command_queue has its response put into
\* its response queue.
C13_DeliveredExactlyOnce ==
  /\ [](\A c \in ConnIds :
          /\ enqueued[c] <= 1
          /\ executed[c] <= enqueued[c]
          /\ Delivered(c) <= executed[c])
  /\ \A c \in ConnIds : (enqueued[c] = 1) ~> (Delivered(c) = 1)

C13_Witness ==
  \E c, d \in ConnIds :
    /\ c # d
    /\ path[c] = "timeout" /\ Closed(c) /\ Delivered(c) = 1
    /\ path[d] = "delivered" /\ Closed(d) /\ Delivered(d) = 1

\* The command of request c is on command_queue.
Queued(c) == \E i \in 1..Len(command_queue) : command_queue[i].rq = c

\* The pump holds the command of request c (popped, its iteration not over).
InIteration(c) == mpc \in {"exec", "put"} /\ item.rq = c

\* C14: a command whose handler timed out is not withdrawn: it is on
\* command_queue, in the pump's hands or executed, it is executed in the
\* end, and no command enqueued after it is executed before it.
C14_TimeoutDoesNotCancel ==
  /\ [](\A c \in ConnIds :
          path[c] = "timeout" => (Queued(c) \/ InIteration(c) \/ executed[c] = 1))
  /\ [](\A c, d \in ConnIds :
          (c < d /\ enqueued[c] = 1 /\ executed[d] = 1) => executed[c] = 1)
  /\ \A c \in ConnIds : (path[c] = "timeout") ~> (executed[c] = 1)

C14_Witness ==
  \E c, d \in ConnIds :
    /\ c < d
    /\ path[c] = "timeout" /\ Closed(c) /\ executed[c] = 1
    /\ enqueued[d] = 1 /\ Queued(d) /\ executed[d] = 0

\* The operator of the command exists and raises when called.
RaisingOperator(command) == command.ok /\ command.operator = <<"mesh", "raise">>

\* This drain pass has executed a command whose operator raised.
RaisedInPass ==
  \E d \in ConnIds : body[d] = "raise" /\ LogPos(<<"exec", d>>) > 0

\* C15: the iteration on a command whose operator raises ends with the ERROR
\* response of that command, carrying the failure's message, and leaves
\* command_queue and the timer alone; in a pass in which an operator raised,
\* every response put is the result of its own command, the put is followed
\* by the loop test of the same pass, and the loop test takes the oldest
\* queued command while there is one and returns to the host only when
\* command_queue is empty.
C15_RaisingOperatorIsolated ==
  [][ /\ (mpc = "exec" /\ mpc' # mpc /\ RaisingOperator(item.command))
           => /\ mpc' = "put"
              /\ response' = Resp("ERROR", <<"operator call failed", "mesh", "raise">>,
                                  item.rq)
              /\ item' = item
              /\ command_queue' = command_queue
              /\ timer_registered'
      /\ (RaisedInPass /\ mpc = "put" /\ mpc' # mpc)
           => /\ OwnResult(response, item.rq)
              /\ response_queue'[item.rq] = Append(response_queue[item.rq], response)
              /\ mpc' = "loop"
              /\ drain'.start = drain.start
              /\ command_queue' = command_queue
      /\ (RaisedInPass /\ mpc = "loop" /\ mpc' # mpc)
           => IF command_queue = <<>>
                THEN mpc' = "host"
                ELSE mpc' = "exec" /\ item' = Head(command_queue)
                       /\ drain'.start = drain.start
    ]_vars

C15_Witness ==
  /\ mpc = "loop"
  /\ command_queue = <<>>
  /\ \E c, d \in ConnIds :
       /\ body[d] = "raise" /\ body[c] = "finish"
       /\ LogPos(<<"put", d>>) > 0
       /\ LogPos(<<"exec", c>>) > LogPos(<<"put", d>>)
       /\ LogPos(<<"put", c>>) > LogPos(<<"exec", c>>)
       /\ response_queue[d] # <<>> /\ response_queue[d][1].status = "ERROR"
       /\ response_queue[c] # <<>> /\ response_queue[c][1].status = "OK"

\* The requests whose commands this pass has executed, in order.
ExecutedInPass ==
  LET isExec(e) == e[1] = "exec"
      execs == SelectSeq(drain.log, isExec)
  IN [i \in 1..Len(execs) |-> execs[i][2]]

\* The number of commands put on command_queue so far.
TotalEnqueued == Cardinality({c \in ConnIds : enqueued[c] = 1})

\* C16 as claimed: a pass executes at most as many commands as command_queue
\* held when the pass began.
C16_PassBoundedByQueueAtStart == Len(ExecutedInPass) <= Len(drain.start)

\* C16, amended: a pass executes the commands command_queue held when it
\* began, in their order, and after them commands enqueued during the pass,
\* none twice; its loop test goes on to the next command while there is one
\* and returns to the host only with command_queue empty; and a pass ends
\* unless one more command is enqueued.
C16_PassDrainsUntilQueueEmpty ==
  /\ [](LET e == ExecutedInPass
        IN /\ \A i \in DOMAIN e :
                IF i <= Len(drain.start)
                  THEN e[i] = drain.start[i]
                  ELSE \A j \in DOMAIN drain.start : e[i] # drain.start[j]
           /\ \A i, j \in DOMAIN e : e[i] = e[j] => i = j)
  /\ [][ (mpc = "loop" /\ mpc' # mpc)
           => IF command_queue = <<>>
                THEN mpc' = "host"
                ELSE mpc' = "exec" /\ item' = Head(command_queue) ]_vars
  /\ \A n \in 0..MaxConn :
       (mpc \in {"exec", "put", "loop"} /\ TotalEnqueued = n)
         ~> (mpc = "host" \/ TotalEnqueued > n)

C16_Witness ==
  /\ mpc = "loop"
  /\ command_queue = <<>>
  /\ Len(drain.start) = 1
  /\ Len(ExecutedInPass) = 2
  /\ \E c \in ConnIds : path[c] = "timeout" /\ drain.start = <<c>>

\* stop_server is inside tcp_server.shutdown() while the handler waits on an
\* empty response queue.
StopWhileHandlerWaits ==
  mpc = "shutdown" /\ hpc = "wait" /\ response_queue[cur] = <<>>

\* C17: while stop_server is inside tcp_server.shutdown() the pump executes
\* nothing and puts no response; a handler waiting then leaves its wait only
\* by the timeout, with the timeout ERROR as its response; and stop_server
\* returns, with tcp_server None.
C17_StopServerReturnsViaTimeout ==
  /\ [][ /\ mpc = "shutdown"
           => /\ executed' = executed
              /\ \A c \in ConnIds : Len(response_queue'[c]) <= Len(response_queue[c])
         /\ (StopWhileHandlerWaits /\ hpc' # hpc)
           => /\ hpc' = "send_timeout"
              /\ hresponse' = TimeoutResponse(cur)
              /\ path'[cur] = "timeout"
              /\ cur' = cur
       ]_vars
  /\ StopWhileHandlerWaits ~> (hpc = "send_timeout" /\ mpc = "shutdown")
  /\ (mpc = "shutdown") ~> (mpc = "host" /\ tcp_server = "None")

C17_Witness ==
  /\ mpc = "shutdown"
  /\ hpc = "send_timeout"
  /\ hresponse = TimedOutError(cur)
  /\ Queued(cur)

\* C18 as claimed: once stop_server has completed, and until the listener is
\* started again, the pump executes no command.
C18_NothingExecutedAfterStop ==
  [][ tcp_server = "None" => executed' = executed ]_vars

\* serve_forever is in its loop, or in a handler called from it.
ListenerServing == hpc \notin {"none", "shut", "dead"}

\* A call of start_server that binds a listener and starts its thread.
StartServerBinds == start_server /\ tcp_server' = "bound" /\ ListenerServing'

\* A call of start_server that changes something.
StartServerActs == start_server /\ vars' # vars

\* C19 as claimed: between the calls of start_server and stop_server,
\* tcp_server is non-None exactly when a listener is serving; start_server
\* does nothing while a server thread is alive; and after a completed
\* stop_server, start_server gives a serving listener again.
C19_OneListenerAndRestartable ==
  /\ mpc # "shutdown" => (tcp_server = "bound" <=> ListenerServing)
  /\ (mpc = "host" /\ timer_registered /\ server_thread_alive)
       => ~ENABLED StartServerActs
  /\ (mpc = "host" /\ timer_registered /\ tcp_server = "None")
       => ENABLED StartServerBinds

\* The pump has executed the command of some request with these bytes.
PumpExecuted(b) == \E c \in ConnIds : body[c] = b /\ executed[c] = 1

\* C20: once registered the timer stays registered; every return of
\* execute_commands_from_queue leaves it registered with the interval 0.1 s
\* (the interval is 1.0 s only before the first return); and every iteration
\* of the pump, whatever the command, ends on the way to the put with an OK
\* or ERROR response for that command.
C20_PumpStaysArmed ==
  /\ [](timer_registered => timer_interval \in {first_interval, return_interval})
  /\ [][ /\ timer_registered => timer_registered'
         /\ (mpc \in {"exec", "put", "loop"} /\ mpc' = "host")
              => (mpc = "loop" /\ timer_registered' /\ timer_interval' = return_interval)
         /\ (mpc = "exec" /\ mpc' # mpc)
              => /\ mpc' = "put"
                 /\ response'.req = item.rq
                 /\ response'.status \in {"OK", "ERROR"}
                 /\ response'.status = "OK" <=> item.command.operator = <<"mesh", "finish">>
       ]_vars

C20_Witness ==
  /\ mpc = "host"
  /\ timer_registered
  /\ timer_interval = return_interval
  /\ command_queue = <<>>
  /\ PumpExecuted("list")
  /\ PumpExecuted("nodot")

=============================================================================
